---- MODULE Spec2Model ----
(***************************************************************************)
(* A model of pkg/cmd/roachprod/vm/vm.go: the provider registry, the       *)
(* fan-out dispatcher, the named-provider iterators and the active-account *)
(* cache.                                                                  *)
(*                                                                         *)
(* Two specifications share the module's variables:                        *)
(*   Spec      one caller issues FanOut / ProvidersParallel /              *)
(*             ProvidersSequential / ForProvider calls; the tasks of an    *)
(*             errgroup.Group run concurrently with the caller.            *)
(*   SpecAcct  callers run FindActiveAccounts against the shared cache.    *)
(*   SpecLive  the dispatcher calls of Spec on short inputs, with actions   *)
(*             that may never return, under fair scheduling.               *)
(*   SpecVM    one caller applies the methods of VM and List: Locality,    *)
(*             Names, ProviderIDs.                                         *)
(***************************************************************************)
EXTENDS Integers, Sequences, FiniteSets, TLC

\* ------------------------------------------------------------------ bounds

\* Longest VM list handed to FanOut.
MaxVMs == 3
\* Longest name list handed to ProvidersParallel / ProvidersSequential.
MaxNamed == 3

\* Most map[string]string objects that escape FindActiveAccounts (the cached
\* map and the returned copies) in one run.
MaxMaps == 4
\* Most changes callers make to the maps they were returned in one run.
MaxMutations == 1

\* Longest VM list and name list of the runs checked for termination.
MaxLive == 2

\* Longest Zone string handed to Locality, besides the named examples.
MaxZone == 4

\* Backend names that occur in VM.Provider fields and in name lists.
ProviderNames == {"aws", "gce", "azure"}
\* Non-nil errors an action callback may return.
ActionErrs == {"e1", "e2"}

\* ------------------------------------------------------------------ values

\* type VM struct: the fields the dispatch layer reads.
MkVM(name, provider) == [Name |-> name, Provider |-> provider]

\* The VMs input lists are drawn from (with repetition): two per backend name.
VMs ==
    {MkVM("c-1", "aws"), MkVM("c-2", "gce"), MkVM("c-3", "aws"),
     MkVM("c-4", "gce"), MkVM("c-5", "azure"), MkVM("c-6", "azure")}

\* All sequences over S of length at most n.
SeqUpTo(S, n) == UNION {[1..k -> S] : k \in 0..n}

\* The nil error.
Nil == [kind |-> "nil", name |-> "", cause |-> ""]
\* errors.Errorf("unknown provider name: %s", n), FanOut's lookup failure.
UnknownProviderName(n) == [kind |-> "unknown provider name", name |-> n, cause |-> ""]
\* errors.Errorf("unknown vm provider: %s", named), ForProvider's lookup failure.
UnknownVMProvider(named) == [kind |-> "unknown vm provider", name |-> named, cause |-> ""]
\* An error value returned by an action callback, opaque to the package.
ActionError(e) == [kind |-> "action", name |-> "", cause |-> e]
\* errors.Wrapf(err, "in provider: %s", named).
Wrapf(err, named) == [kind |-> "in provider", name |-> named, cause |-> err.cause]

\* What an action callback may return: nil or one of its errors.
ActionResults == {Nil} \cup {ActionError(e) : e \in ActionErrs}

\* A Provider implementation: only its Name() is observable here.
ProviderObj(n) == [Name |-> n]

\* The registries the subpackage init() functions may have built: each backend
\* registers itself under the name its Name() reports.
Registries ==
    {[n \in D |-> ProviderObj(n)] :
        D \in {{}, {"aws"}, {"aws", "gce"}, {"aws", "gce", "azure"}}}

\* The goroutines that may call FindActiveAccounts.
Procs == {1, 2}
\* Account names a backend may report; "" is no active account.
Identities == {"", "alice", "bob"}
\* What p.FindActiveAccount() returns: (account, nil) or ("", err).
AccountReports ==
    {[account |-> a, err |-> Nil] : a \in Identities}
        \cup {[account |-> "", err |-> ActionError("e1")]}
\* The registries of the runs of FindActiveAccounts.
AcctRegistries == {r \in Registries : Cardinality(DOMAIN r) <= 2}
\* What a caller may write into a map it was returned.
Intruder == "mallory"

\* The empty map[string]string.
EmptyMap == [k \in {} |-> ""]

VARIABLES
    Providers,    \* var Providers = map[string]Provider{}
    pc,           \* the caller's position: idle, go (launch loop, then Wait), loop, returned
    call,         \* the call in progress: [fn, list, named]
    m,            \* FanOut's local map[string]List
    todo,         \* keys of m the range loop has not visited yet
    idx,          \* position of the range loop over named
    tasks,        \* the goroutines g.Go launched: by map key (FanOut) or position (ProvidersParallel)
    g,            \* the errgroup.Group: [wg, errOnce, err]
    ret,          \* the value the call returned
    invoked,      \* history: one entry per ForProvider made by the caller's own goroutine
    firstErr,     \* history: the task whose failure was recorded first ({}: none yet)
    cachedActiveAccounts, \* var cachedActiveAccounts map[string]string: an address of heap, 0 is nil
    heap,         \* the map[string]string objects that escaped a call, by address
    procs,        \* per caller: [pc, src, left, err], the locals of its FindActiveAccounts call
    returned,     \* history: per successful call [addr, snap, touched, after]
    stored,       \* history: the contents of the cached map when it was stored
    reported,     \* history: what the backends reported to the call that stored it
    overlap       \* history: two FindActiveAccounts calls were in progress at once

dispatchVars == <<pc, call, m, todo, idx, tasks, g, ret, invoked, firstErr>>
acctVars == <<cachedActiveAccounts, heap, procs, returned, stored, reported, overlap>>
vars == <<Providers, dispatchVars, acctVars>>

\* f extended (or overwritten) at key k with value x.
Put(f, k, x) == [j \in DOMAIN f \cup {k} |-> IF j = k THEN x ELSE f[j]]

\* ---------------------------------------------------------------- FanOut

\* CollateStep with the assignment m[vm.Provider] = List{vm}: the group is
\* overwritten instead of appended to.
CollateStepOverwrite(mm, vm) == Put(mm, vm.Provider, <<vm>>)

\* CollateStep with the VM put in front of its group.
CollateStepPrepend(mm, vm) ==
    LET old == IF vm.Provider \in DOMAIN mm THEN mm[vm.Provider] ELSE <<>>
    IN  Put(mm, vm.Provider, <<vm>> \o old)

\* The body of FanOut's first loop, m[vm.Provider] = append(m[vm.Provider], vm):
\* a missing key reads as the nil List.
CollateStep(mm, vm) ==
    LET old == IF vm.Provider \in DOMAIN mm THEN mm[vm.Provider] ELSE <<>>
    IN  Put(mm, vm.Provider, Append(old, vm))

\* for _, vm := range list { ... }, from position i on.
RECURSIVE CollateFrom(_, _, _)
CollateFrom(list, i, mm) ==
    IF i > Len(list) THEN mm
    ELSE CollateFrom(list, i + 1, CollateStep(mm, list[i]))

\* Collate of a FanOut that first gives every registered backend an empty group.
CollatePrefilled(list) == CollateFrom(list, 1, [n \in DOMAIN Providers |-> <<>>])

\* The map FanOut builds from list.
Collate(list) == CollateFrom(list, 1, <<>>)

\* The zero errgroup.Group.
ZeroGroup == [wg |-> 0, errOnce |-> FALSE, err |-> Nil]

NoCall == [fn |-> "none", list |-> <<>>, named |-> <<>>]

\* A goroutine handed to g.Go: n and v are the captured loop variables; calls is
\* the history of the invocations of action it made, each [p, v].
NewTask(n, v) == [n |-> n, v |-> v, st |-> "pending", res |-> Nil, calls |-> <<>>]

\* GroupGo of a group whose counter is raised twice per goroutine.
GroupGoTwice(grp) == [grp EXCEPT !.wg = @ + 2]

\* g.Go(f): wg.Add(1) and the goroutine is created.
GroupGo(grp) == [grp EXCEPT !.wg = @ + 1]

\* GroupDone without the Once: every failing task overwrites g.err.
GroupDoneLastWins(grp, err) ==
    [wg |-> grp.wg - 1,
     errOnce |-> grp.errOnce \/ err # Nil,
     err |-> IF err # Nil THEN err ELSE grp.err]

\* The end of g.Go's goroutine: errOnce.Do(func() { g.err = err }) when f
\* returned an error, then wg.Done().
GroupDone(grp, err) ==
    [wg |-> grp.wg - 1,
     errOnce |-> grp.errOnce \/ err # Nil,
     err |-> IF err # Nil /\ ~grp.errOnce THEN err ELSE grp.err]

\* WaitReady of a group that stops waiting at the first recorded error.
WaitReadyOnError(grp) == grp.wg = 0 \/ grp.err # Nil

\* g.Wait() blocks in wg.Wait() until the counter is zero.
WaitReady(grp) == grp.wg = 0

\* FanOut is entered: the map is built, the launch loop starts.
CallFanOut(list) ==
    /\ pc = "idle"
    /\ call' = [fn |-> "FanOut", list |-> list, named |-> <<>>]
    /\ m' = Collate(list)
    /\ todo' = DOMAIN m'
    /\ g' = ZeroGroup
    /\ pc' = "go"
    /\ UNCHANGED <<Providers, idx, tasks, ret, invoked, firstErr, acctVars>>

\* One iteration of for name, vms := range m: g.Go of the closure over n, v.
\* Go's map iteration order is unspecified.
FanOutGo(n) ==
    /\ pc = "go" /\ call.fn = "FanOut"
    /\ n \in todo
    /\ tasks' = Put(tasks, n, NewTask(n, m[n]))
    /\ g' = GroupGo(g)
    /\ todo' = todo \ {n}
    /\ UNCHANGED <<Providers, pc, call, m, idx, ret, invoked, firstErr, acctVars>>

\* ---------------------------------------------------------- ForProvider

\* p, ok := Providers[named]
Registered(named) == named \in DOMAIN Providers

\* ForProvider returning the action's error as it is, without the provider name.
ForProviderUnwrapped(named, r) ==
    IF ~Registered(named) THEN UnknownVMProvider(named) ELSE r

\* ForProvider's result when action (if reached) returns r.
ForProvider(named, r) ==
    IF ~Registered(named) THEN UnknownVMProvider(named)
    ELSE IF r # Nil THEN Wrapf(r, named)
    ELSE Nil

\* The invocations of action ForProvider(named, action) makes, each [p, v]:
\* action(p) with the resolved provider, none when the lookup fails.
ForProviderCalls(named) ==
    IF Registered(named) THEN <<[p |-> Providers[named], v |-> <<>>]>> ELSE <<>>

\* The history entry of one ForProvider(named, action) made by the caller's own
\* goroutine: the invocations of action and what action returned (r counts
\* only when action was invoked).
Invocation(named, r) ==
    [calls |-> ForProviderCalls(named), r |-> IF Registered(named) THEN r ELSE Nil]

\* A direct ForProvider(named, action) call, action returning r.
CallForProvider(named, r) ==
    /\ pc = "idle"
    /\ call' = [fn |-> "ForProvider", list |-> <<>>, named |-> <<named>>]
    /\ invoked' = <<Invocation(named, r)>>
    /\ ret' = ForProvider(named, r)
    /\ pc' = "returned"
    /\ UNCHANGED <<Providers, m, todo, idx, tasks, g, firstErr, acctVars>>

\* ---------------------------------------------------- ProvidersParallel

CallProvidersParallel(named) ==
    /\ pc = "idle"
    /\ call' = [fn |-> "ProvidersParallel", list |-> <<>>, named |-> named]
    /\ idx' = 1
    /\ g' = ZeroGroup
    /\ pc' = "go"
    /\ UNCHANGED <<Providers, m, todo, tasks, ret, invoked, firstErr, acctVars>>

\* ParallelGo without n := name: every closure reads the loop variable, which
\* holds the last name by the time the goroutines run.
ParallelGoSharedVar ==
    /\ pc = "go" /\ call.fn = "ProvidersParallel"
    /\ idx <= Len(call.named)
    /\ tasks' = Put(tasks, idx, NewTask(call.named[Len(call.named)], <<>>))
    /\ g' = GroupGo(g)
    /\ idx' = idx + 1
    /\ UNCHANGED <<Providers, pc, call, m, todo, ret, invoked, firstErr, acctVars>>

\* One iteration of for _, name := range named: g.Go of the closure over n.
ParallelGo ==
    /\ pc = "go" /\ call.fn = "ProvidersParallel"
    /\ idx <= Len(call.named)
    /\ tasks' = Put(tasks, idx, NewTask(call.named[idx], <<>>))
    /\ g' = GroupGo(g)
    /\ idx' = idx + 1
    /\ UNCHANGED <<Providers, pc, call, m, todo, ret, invoked, firstErr, acctVars>>

\* LaunchDone of a launch loop that breaks off once an error is recorded.
LaunchDoneOnError ==
    \/ g.err # Nil
    \/ IF call.fn = "FanOut" THEN todo = {} ELSE idx > Len(call.named)

\* The launch loop of the call in progress has ended.
LaunchDone ==
    IF call.fn = "FanOut" THEN todo = {} ELSE idx > Len(call.named)

\* ------------------------------------------------------------ goroutines

\* LookupFailure of a goroutine that skips an unknown name silently.
LookupFailureSwallowed(fn, n) == Nil

\* What the goroutine's function returns when the registry has no entry for n.
LookupFailure(fn, n) ==
    IF fn = "FanOut" THEN UnknownProviderName(n) ELSE UnknownVMProvider(n)

\* What the goroutine's function returns when its action returned r: FanOut
\* returns action(p, v) as is, ProvidersParallel returns ForProvider(n, action).
TaskResult(fn, n, r) == IF fn = "FanOut" THEN r ELSE ForProvider(n, r)

\* The invocation the goroutine t makes once its lookup succeeded: action(p, v)
\* in FanOut, action(p) in ForProvider.
TaskCall(t) == [p |-> Providers[t.n], v |-> t.v]

\* Goroutine k ends with result err: its record, the group and the history.
Finish(k, t, err) ==
    /\ tasks' = [tasks EXCEPT ![k] = [t EXCEPT !.st = "done", !.res = err]]
    /\ g' = GroupDone(g, err)
    /\ firstErr' = IF err # Nil /\ firstErr = {} THEN {k} ELSE firstErr

\* A launched goroutine starts: the registry lookup, and either the invocation
\* of action or, the name being unknown, the end of the goroutine with the
\* lookup's error.
TaskStart(k) ==
    /\ tasks[k].st = "pending"
    /\ IF Registered(tasks[k].n)
       THEN /\ tasks' = [tasks EXCEPT ![k].st = "running",
                                      ![k].calls = Append(@, TaskCall(tasks[k]))]
            /\ UNCHANGED <<g, firstErr>>
       ELSE Finish(k, tasks[k], LookupFailure(call.fn, tasks[k].n))
    /\ UNCHANGED <<Providers, pc, call, m, todo, idx, ret, invoked, acctVars>>

\* The action invoked by goroutine k returns r and the goroutine ends.  (The
\* return touches nothing shared, so it is one step with the recording of the
\* result in the group.)
TaskFinish(k, r) ==
    /\ tasks[k].st = "running"
    /\ Finish(k, tasks[k], TaskResult(call.fn, tasks[k].n, r))
    /\ UNCHANGED <<Providers, pc, call, m, todo, idx, ret, invoked, acctVars>>

\* The action invoked by goroutine k never returns (a backend that hangs): the
\* goroutine stays inside it for good.
TaskStall(k) ==
    /\ tasks[k].st = "running"
    /\ tasks' = [tasks EXCEPT ![k].st = "stalled"]
    /\ UNCHANGED <<Providers, pc, call, m, todo, idx, g, ret, invoked, firstErr, acctVars>>

\* return g.Wait()
GroupWait ==
    /\ pc = "go"
    /\ LaunchDone
    /\ WaitReady(g)
    /\ ret' = g.err
    /\ pc' = "returned"
    /\ UNCHANGED <<Providers, call, m, todo, idx, tasks, g, invoked, firstErr, acctVars>>

\* -------------------------------------------------- ProvidersSequential

CallProvidersSequential(named) ==
    /\ pc = "idle"
    /\ call' = [fn |-> "ProvidersSequential", list |-> <<>>, named |-> named]
    /\ idx' = 1
    /\ pc' = "loop"
    /\ UNCHANGED <<Providers, m, todo, tasks, g, ret, invoked, firstErr, acctVars>>

\* SequentialStep that remembers the error and goes on to the next name.
SequentialStepKeepGoing(r) ==
    /\ pc = "loop"
    /\ idx <= Len(call.named)
    /\ invoked' = Append(invoked, Invocation(call.named[idx], r))
    /\ ret' = IF ForProvider(call.named[idx], r) # Nil
              THEN ForProvider(call.named[idx], r) ELSE ret
    /\ idx' = idx + 1
    /\ UNCHANGED <<Providers, pc, call, m, todo, tasks, g, firstErr, acctVars>>

\* One iteration of ProvidersSequential's loop, action (if reached) returning r:
\* if err := ForProvider(name, action); err != nil { return err }
SequentialStep(r) ==
    /\ pc = "loop"
    /\ idx <= Len(call.named)
    /\ invoked' = Append(invoked, Invocation(call.named[idx], r))
    /\ IF ForProvider(call.named[idx], r) # Nil
       THEN /\ ret' = ForProvider(call.named[idx], r)
            /\ pc' = "returned"
            /\ UNCHANGED idx
       ELSE /\ idx' = idx + 1
            /\ UNCHANGED <<ret, pc>>
    /\ UNCHANGED <<Providers, call, m, todo, tasks, g, firstErr, acctVars>>

\* The loop ran off the end of named: return nil.
SequentialReturn ==
    /\ pc = "loop"
    /\ idx > Len(call.named)
    /\ ret' = Nil
    /\ pc' = "returned"
    /\ UNCHANGED <<Providers, call, m, todo, idx, tasks, g, invoked, firstErr, acctVars>>

\* The caller takes the result; the call's locals are gone.
Reset ==
    /\ pc = "returned"
    /\ pc' = "idle"
    /\ call' = NoCall
    /\ m' = <<>>
    /\ todo' = {}
    /\ idx' = 1
    /\ tasks' = <<>>
    /\ g' = ZeroGroup
    /\ ret' = Nil
    /\ invoked' = <<>>
    /\ firstErr' = {}
    /\ UNCHANGED <<Providers, acctVars>>

\* --------------------------------------------------- FindActiveAccounts

\* A caller outside FindActiveAccounts; err is what its last call returned.
\* seen is history: what each backend queried by the running computation
\* reported.
IdleProc(err) ==
    [pc |-> "idle", src |-> EmptyMap, left |-> {}, err |-> err, seen |-> EmptyMap]

\* "source == nil" tested as "len(source) == 0".
CacheNilOrEmpty(c, h) == IF c = 0 THEN TRUE ELSE h[c] = EmptyMap

\* source == nil, for source read from the cache variable holding address c
\* (0 is nil) of heap h.
CacheNil(c, h) == c = 0

\* f without key k: delete(f, k).
Delete(f, k) == [j \in DOMAIN f \ {k} |-> f[j]]

\* make(map[string]string, ...) filled with contents: the heap with the new
\* object, whose address is Len(heap) + 1.
Alloc(h, contents) == Append(h, contents)

\* CopyOut of a FindActiveAccounts that ends with "return source, nil".
CopyOutAliased(h, srcAddr) == <<h, srcAddr>>

\* The map a successful call hands to its caller, given the address of source:
\* ret := make(...); for k, v := range source { ret[k] = v }; the result is
\* <<heap, address of ret>>.
CopyOut(h, srcAddr) == <<Alloc(h, h[srcAddr]), Len(h) + 1>>

\* The changes callers made so far to the maps of the history entries 1..j.
RECURSIVE Touched(_)
Touched(j) == IF j = 0 THEN 0 ELSE returned[j].touched + Touched(j - 1)

\* The history entry of a successful return of the map at addr of heap h: its
\* contents then, the changes callers made to it since, and whether a caller
\* had changed an earlier result by then.
ReturnEntry(h, addr) ==
    [addr |-> addr, snap |-> h[addr], touched |-> 0,
     after |-> Touched(Len(returned)) > 0]

\* Another caller is inside FindActiveAccounts.
OthersBusy(p) == \E q \in Procs \ {p} : procs[q].pc # "idle"

\* FindActiveAccounts is entered with the cache set: source is the cached map,
\* a copy is returned.
AcctCached(p) ==
    /\ procs[p].pc = "idle"
    /\ ~CacheNil(cachedActiveAccounts, heap)
    /\ Len(heap) + 1 <= MaxMaps
    /\ LET out == CopyOut(heap, cachedActiveAccounts)
       IN  /\ heap' = out[1]
           /\ returned' = Append(returned, ReturnEntry(out[1], out[2]))
    /\ procs' = [procs EXCEPT ![p] = IdleProc(Nil)]
    /\ overlap' = (overlap \/ OthersBusy(p))
    /\ UNCHANGED <<Providers, dispatchVars, cachedActiveAccounts, stored, reported>>

\* AcctBegin of a FindActiveAccounts whose first access is guarded (a mutex
\* or sync.Once around lines 205-223): no caller enters the computation while
\* another is inside.
AcctBeginOnce(p) ==
    /\ procs[p].pc = "idle"
    /\ CacheNil(cachedActiveAccounts, heap)
    /\ ~OthersBusy(p)
    /\ Len(heap) + 2 <= MaxMaps
    /\ procs' = [procs EXCEPT ![p] =
            [pc |-> "query", src |-> EmptyMap, left |-> DOMAIN Providers, err |-> Nil,
             seen |-> EmptyMap]]
    /\ overlap' = (overlap \/ OthersBusy(p))
    /\ UNCHANGED <<Providers, dispatchVars, cachedActiveAccounts, heap, returned, stored,
                   reported>>

\* FindActiveAccounts is entered with the cache nil: source is a new map and
\* ProvidersSequential starts over AllProviderNames().
AcctBegin(p) ==
    /\ procs[p].pc = "idle"
    /\ CacheNil(cachedActiveAccounts, heap)
    /\ Len(heap) + 2 <= MaxMaps
    /\ procs' = [procs EXCEPT ![p] =
            [pc |-> "query", src |-> EmptyMap, left |-> DOMAIN Providers, err |-> Nil,
             seen |-> EmptyMap]]
    /\ overlap' = (overlap \/ OthersBusy(p))
    /\ UNCHANGED <<Providers, dispatchVars, cachedActiveAccounts, heap, returned, stored,
                   reported>>

\* AccountAction of a closure without the "len(account) > 0" test.
AccountActionKeepEmpty(src, prov, rep) ==
    [err |-> rep.err,
     src |-> IF rep.err = Nil THEN Put(src, prov.Name, rep.account) ELSE src]

\* The closure FindActiveAccounts hands to ProvidersSequential, run against
\* provider prov whose FindActiveAccount returns rep: the closure's error and
\* source after it.
AccountAction(src, prov, rep) ==
    [err |-> rep.err,
     src |-> IF rep.err = Nil /\ rep.account # ""
             THEN Put(src, prov.Name, rep.account)
             ELSE src]

\* AcctQuery of a FindActiveAccounts that assigns cachedActiveAccounts = source
\* before it tests the error of ProvidersSequential.
AcctQueryStoreFirst(p, n, rep) ==
    /\ procs[p].pc = "query"
    /\ n \in procs[p].left
    /\ LET a == AccountAction(procs[p].src, Providers[n], rep)
           e == ForProvider(n, a.err)
       IN  /\ procs' = [procs EXCEPT ![p] =
                IF e # Nil THEN [IdleProc(e) EXCEPT !.left = procs[p].left \ {n}]
                ELSE [@ EXCEPT !.src = a.src, !.left = @ \ {n},
                               !.seen = Put(@, n, rep.account)]]
           /\ IF e # Nil
              THEN /\ heap' = Alloc(heap, procs[p].src)
                   /\ cachedActiveAccounts' = Len(heap) + 1
                   /\ stored' = procs[p].src
                   /\ reported' = procs[p].seen
              ELSE UNCHANGED <<heap, cachedActiveAccounts, stored, reported>>
    /\ UNCHANGED <<Providers, dispatchVars, returned, overlap>>

\* One iteration of ProvidersSequential inside FindActiveAccounts, for name n
\* (AllProviderNames() has the registry's keys in no particular order), the
\* backend's FindActiveAccount returning rep: on an error the call returns
\* (nil, err). After a failed call, left keeps (as history) the names the
\* loop had not reached.
AcctQuery(p, n, rep) ==
    /\ procs[p].pc = "query"
    /\ n \in procs[p].left
    /\ LET a == AccountAction(procs[p].src, Providers[n], rep)
           e == ForProvider(n, a.err)
       IN  procs' = [procs EXCEPT ![p] =
                IF e # Nil THEN [IdleProc(e) EXCEPT !.left = procs[p].left \ {n}]
                ELSE [@ EXCEPT !.src = a.src, !.left = @ \ {n},
                               !.seen = Put(@, n, rep.account)]]
    /\ UNCHANGED <<Providers, dispatchVars, cachedActiveAccounts, heap, returned,
                   stored, reported, overlap>>

\* ProvidersSequential returned nil: cachedActiveAccounts = source, and a copy
\* of source is returned.
AcctStore(p) ==
    /\ procs[p].pc = "query"
    /\ procs[p].left = {}
    /\ LET h1 == Alloc(heap, procs[p].src)
           out == CopyOut(h1, Len(h1))
       IN  /\ cachedActiveAccounts' = Len(h1)
           /\ heap' = out[1]
           /\ returned' = Append(returned, ReturnEntry(out[1], out[2]))
    /\ stored' = procs[p].src
    /\ reported' = procs[p].seen
    /\ procs' = [procs EXCEPT ![p] = IdleProc(Nil)]
    /\ UNCHANGED <<Providers, dispatchVars, overlap>>

\* A caller changes the map some call returned to it: an entry is added or
\* changed (val is a string) or removed (val is "").
Mutate(j, k, val) ==
    /\ j \in DOMAIN returned
    /\ Touched(Len(returned)) < MaxMutations
    /\ heap' = [heap EXCEPT ![returned[j].addr] =
            IF val = "" THEN Delete(@, k) ELSE Put(@, k, val)]
    /\ heap' # heap
    /\ returned' = [returned EXCEPT ![j].touched = @ + 1]
    /\ UNCHANGED <<Providers, dispatchVars, cachedActiveAccounts, procs, stored, reported,
                   overlap>>

\* ------------------------------------------- VM.Locality, List projections

\* Where Locality looks inside a string or joins strings, a string is the
\* sequence of its characters.
Lower ==
    {"a", "b", "c", "d", "e", "f", "g", "h", "i", "j", "k", "l", "m",
     "n", "o", "p", "q", "r", "s", "t", "u", "v", "w", "x", "y", "z"}
\* The characters zones are built from: two letters, a digit and the hyphen.
ZoneChars == {"a", "z", "1", "-"}
NamedZones ==
    {<<"u", "s", "-", "e", "a", "s", "t", "1", "-", "b">>,
     <<"u", "s", "-", "e", "a", "s", "t", "-", "1", "b">>,
     <<"E", "U", "-", "B">>}
\* config.Local, the Zone of the local host.
Local == <<"l", "o", "c", "a", "l">>
Zones == SeqUpTo(ZoneChars, MaxZone) \cup NamedZones \cup {Local}
Clouds == {<<"g", "c", "e">>, <<"a", "w", "s">>}

\* The VMs whose Locality is taken.
ZoneVM(provider, zone) == [Name |-> "n", Provider |-> provider, Zone |-> zone]
ZoneVMs == {ZoneVM(c, z) : c \in Clouds, z \in Zones}

\* The VMs the projected lists are drawn from (with repetition).
IdVM(name, id) == [Name |-> name, Provider |-> "aws", ProviderID |-> id]
IdVMs == {IdVM(n, i) : n \in {"c-1", "c-2"}, i \in {"i-1", "i-2"}}

\* RestMatches of a regionRE that reads (.*[^-])-[a-z]$.
RestMatchesHyphen(z, e) ==
    /\ e + 2 = Len(z)
    /\ z[e + 1] = "-"
    /\ z[Len(z)] \in Lower

\* -?[a-z]$ matches z from position e + 1 to its end.
RestMatches(z, e) ==
    \/ e + 1 = Len(z) /\ z[Len(z)] \in Lower
    \/ e + 2 = Len(z) /\ z[e + 1] = "-" /\ z[Len(z)] \in Lower

\* The matches of regionRE in z, as <<start, end of group 1>>: (.*[^-]) is
\* z[s..e], . matches any character but a newline.
Matches(z) ==
    {se \in (1..Len(z)) \X (1..Len(z)) :
        /\ se[1] <= se[2]
        /\ \A i \in se[1]..se[2] : z[i] # "\n"
        /\ z[se[2]] # "-"
        /\ RestMatches(z, se[2])}

\* regionRE.FindStringSubmatch(z): nil (<<>>) without a match, else the
\* leftmost match with .* as long as possible, as <<match, group 1>>.
FindStringSubmatch(z) ==
    IF Matches(z) = {} THEN <<>>
    ELSE LET s0 == CHOOSE s \in {se[1] : se \in Matches(z)} :
                        \A se \in Matches(z) : s <= se[1]
             e0 == CHOOSE e \in {se[2] : se \in Matches(z)} :
                        /\ <<s0, e>> \in Matches(z)
                        /\ \A se \in Matches(z) : se[1] = s0 => se[2] <= e
         IN  <<SubSeq(z, s0, Len(z)), SubSeq(z, s0, e0)>>

\* vm.IsLocal().
IsLocal(v) == v.Zone = Local

\* fmt.Sprintf("cloud=%s,region=%s,zone=%s", provider, region, zone).
Sprintf(provider, region, zone) ==
    <<"c", "l", "o", "u", "d", "=">> \o provider
        \o <<",", "r", "e", "g", "i", "o", "n", "=">> \o region
        \o <<",", "z", "o", "n", "e", "=">> \o zone

\* log.Fatalf: the process exits, nothing is returned.
Fatal == [fatal |-> TRUE, out |-> <<>>]
Returns(str) == [fatal |-> FALSE, out |-> str]

\* Locality without the IsLocal branch.
LocalityNoLocal(v) ==
    LET match == FindStringSubmatch(v.Zone)
    IN  IF Len(match) = 2
        THEN Returns(Sprintf(v.Provider, match[2], v.Zone))
        ELSE Fatal

\* vm.Locality(): the returned string, or the fatal exit.
Locality(v) ==
    LET match == FindStringSubmatch(v.Zone)
    IN  IF IsLocal(v) THEN Returns(Sprintf(v.Provider, v.Zone, v.Zone))
        ELSE IF Len(match) = 2
        THEN Returns(Sprintf(v.Provider, match[2], v.Zone))
        ELSE Fatal

\* Names that appends to an empty slice the names not appended yet.
NamesDistinct(vl) ==
    LET keep == {i \in DOMAIN vl : \A j \in 1..(i - 1) : vl[j].Name # vl[i].Name}
        RECURSIVE Pick(_)
        Pick(i) == IF i = 0 THEN <<>>
                   ELSE IF i \in keep THEN Append(Pick(i - 1), vl[i].Name)
                   ELSE Pick(i - 1)
    IN  Pick(Len(vl))

\* vl.Names().
Names(vl) == [i \in 1..Len(vl) |-> vl[i].Name]

\* vl.ProviderIDs().
ProviderIDs(vl) == [i \in 1..Len(vl) |-> vl[i].ProviderID]

\* vm.Locality() is called on v. For the methods of VM and List, list is the
\* caller's value after the call and invoked keeps the argument as passed.
CallLocality(v) ==
    /\ pc = "idle"
    /\ call' = [fn |-> "Locality", list |-> <<v>>, named |-> <<>>]
    /\ invoked' = <<<<v>>>>
    /\ ret' = Locality(v)
    /\ pc' = "returned"
    /\ UNCHANGED <<Providers, m, todo, idx, tasks, g, firstErr, acctVars>>

\* vl.Names() is called.
CallNames(vl) ==
    /\ pc = "idle"
    /\ call' = [fn |-> "Names", list |-> vl, named |-> <<>>]
    /\ invoked' = <<vl>>
    /\ ret' = Names(vl)
    /\ pc' = "returned"
    /\ UNCHANGED <<Providers, m, todo, idx, tasks, g, firstErr, acctVars>>

\* vl.ProviderIDs() is called.
CallProviderIDs(vl) ==
    /\ pc = "idle"
    /\ call' = [fn |-> "ProviderIDs", list |-> vl, named |-> <<>>]
    /\ invoked' = <<vl>>
    /\ ret' = ProviderIDs(vl)
    /\ pc' = "returned"
    /\ UNCHANGED <<Providers, m, todo, idx, tasks, g, firstErr, acctVars>>

\* ------------------------------------------------------------ properties

\* The number of positions of s that hold x.
Count(s, x) == Cardinality({i \in DOMAIN s : s[i] = x})

\* The sub-sequence of list whose VMs have Provider b.
OfProvider(list, b) == SelectSeq(list, LAMBDA x : x.Provider = b)

\* The invocations of action made by the goroutines so far, as <<task, number>>.
TaskCalls == UNION {{<<k, j>> : j \in DOMAIN tasks[k].calls} : k \in DOMAIN tasks}

InFanOut == call.fn = "FanOut"
InParallel == call.fn = "ProvidersParallel"
Returned == pc = "returned"

\* C1: in a FanOut call every VM is delivered to at most one invocation, that
\* invocation is the one for the backend its Provider field names, it holds
\* the VM as many times as the input list does (once per input position), and
\* when FanOut has returned every input VM of a registered backend has been
\* delivered.
C1_DeliveredExactlyOnce ==
    InFanOut =>
        /\ \A k \in DOMAIN tasks : Len(tasks[k].calls) <= 1
        /\ \A x \in VMs :
            LET D == {d \in TaskCalls : Count(tasks[d[1]].calls[d[2]].v, x) > 0}
            IN  /\ Cardinality(D) <= 1
                /\ \A d \in D :
                    /\ Count(tasks[d[1]].calls[d[2]].v, x) = Count(call.list, x)
                    /\ Registered(x.Provider)
                    /\ tasks[d[1]].calls[d[2]].p = Providers[x.Provider]
                /\ (Returned /\ Registered(x.Provider) /\ Count(call.list, x) > 0)
                        => D # {}

\* A FanOut over two registered backends has returned; one VM occurs twice in
\* the input.
C1_Witness ==
    /\ InFanOut /\ Returned
    /\ Len(call.list) = 3
    /\ \E x \in VMs : Count(call.list, x) = 2 /\ Registered(x.Provider)
    /\ Cardinality(TaskCalls) = 2

\* C2: the sub-collection of every invocation FanOut makes is the sub-sequence
\* of the input list, in input order, of the VMs whose Provider is the name of
\* the backend the invocation is for.
C2_StablePartition ==
    InFanOut =>
        \A d \in TaskCalls :
            LET c == tasks[d[1]].calls[d[2]]
            IN  c.v = OfProvider(call.list, c.p.Name)

\* The spec's scenario: [c-1/aws, c-2/gce, c-3/aws] with aws and gce registered
\* gave [c-1, c-3] to aws and [c-2] to gce.
C2_Witness ==
    /\ InFanOut /\ Returned
    /\ call.list = <<MkVM("c-1", "aws"), MkVM("c-2", "gce"), MkVM("c-3", "aws")>>
    /\ DOMAIN tasks = {"aws", "gce"}
    /\ tasks["aws"].calls =
         <<[p |-> ProviderObj("aws"),
            v |-> <<MkVM("c-1", "aws"), MkVM("c-3", "aws")>>]>>
    /\ tasks["gce"].calls =
         <<[p |-> ProviderObj("gce"), v |-> <<MkVM("c-2", "gce")>>]>>
    /\ ret = Nil

\* The goroutines the call in progress has to launch in all.
ToLaunch == IF InFanOut THEN DOMAIN m ELSE DOMAIN call.named

\* C3: when FanOut or ProvidersParallel has returned, every goroutine it had to
\* launch was launched and has finished.
C3_FullBarrier ==
    (Returned /\ (InFanOut \/ InParallel)) =>
        /\ DOMAIN tasks = ToLaunch
        /\ \A k \in DOMAIN tasks : tasks[k].st = "done"

\* A call returned after one task failed and another ran its action to a nil
\* result.
C3_Witness ==
    /\ Returned /\ (InFanOut \/ InParallel)
    /\ ret # Nil
    /\ \E k \in DOMAIN tasks : tasks[k].res = Nil /\ tasks[k].calls # <<>>

\* The backend names of the input list that the registry lacks.
UnknownGroups == {b \in DOMAIN m : ~Registered(b)}

\* C4: in FanOut the task of a group whose name the registry lacks never
\* invokes action and ends with the unknown-provider error; when FanOut has
\* returned with such a group in the input, every registered group's action
\* was invoked with its sub-collection and has completed, and the result is
\* not nil.
C4_UnknownProviderGroup ==
    InFanOut =>
        /\ \A k \in DOMAIN tasks : ~Registered(k) =>
            /\ tasks[k].calls = <<>>
            /\ tasks[k].st \in {"pending", "done"}
            /\ tasks[k].st = "done" => tasks[k].res = UnknownProviderName(k)
        /\ (Returned /\ UnknownGroups # {}) =>
            /\ ret # Nil
            /\ \A b \in DOMAIN m :
                /\ b \in DOMAIN tasks
                /\ tasks[b].st = "done"
                /\ Registered(b) =>
                     tasks[b].calls = <<[p |-> Providers[b], v |-> m[b]]>>

\* FanOut returned over an unregistered group and a registered one whose
\* action succeeded.
C4_Witness ==
    /\ InFanOut /\ Returned
    /\ UnknownGroups # {}
    /\ \E b \in DOMAIN m :
        Registered(b) /\ tasks[b].res = Nil /\ Len(tasks[b].calls) = 1

\* C5: in FanOut, once a task has failed, every sibling can still proceed (a
\* group not yet launched can be launched, a pending goroutine can start, a
\* running action can return), and when FanOut has returned every group's
\* goroutine has finished, each registered group's action invoked once.
C5_NoSiblingCancellation ==
    (InFanOut /\ firstErr # {}) =>
        /\ \A n \in todo : ENABLED FanOutGo(n)
        /\ \A k \in DOMAIN tasks :
            /\ tasks[k].st = "pending" => ENABLED TaskStart(k)
            /\ tasks[k].st = "running" => ENABLED TaskFinish(k, Nil)
        /\ Returned =>
            \A b \in DOMAIN m :
                /\ b \in DOMAIN tasks
                /\ tasks[b].st = "done"
                /\ Registered(b) => Len(tasks[b].calls) = 1

\* An action has returned an error while one sibling is launched but not
\* started and another group is not launched yet.
C5_Witness ==
    /\ InFanOut
    /\ \E k \in firstErr : tasks[k].res.kind = "action"
    /\ todo # {}
    /\ \E k \in DOMAIN tasks : tasks[k].st = "pending"

\* C6: the result of FanOut and ProvidersParallel is nil exactly when every
\* task returned nil; otherwise it is the error of the task whose failure was
\* recorded first.
C6_FirstErrorOnly ==
    (Returned /\ (InFanOut \/ InParallel)) =>
        /\ ret = Nil <=> \A k \in DOMAIN tasks : tasks[k].res = Nil
        /\ ret = Nil <=> firstErr = {}
        /\ \A k \in firstErr : ret = tasks[k].res

\* Two tasks failed with different errors; the call returned the first one.
C6_Witness ==
    /\ Returned /\ (InFanOut \/ InParallel)
    /\ \E k \in firstErr : \E j \in DOMAIN tasks :
        tasks[j].res # Nil /\ tasks[j].res # tasks[k].res /\ ret = tasks[k].res

InSequential == call.fn = "ProvidersSequential"

\* ForProvider failed at position j of the name list of the call in progress.
FailedAt(j) == ~Registered(call.named[j]) \/ invoked[j].r # Nil

\* The one invocation action(p) with the provider registered under named, or
\* none when the registry lacks the name.
OnceIfRegistered(named) ==
    IF named \in DOMAIN Providers
    THEN <<[p |-> Providers[named], v |-> <<>>]>>
    ELSE <<>>

\* C7: ProvidersSequential processes the names in list order, one ForProvider
\* each; only the last name processed can have failed; a failure ends the call
\* with that error and nothing is invoked for the names after it; without a
\* failure every name is processed and the call returns nil.
C7_SequentialFailFast ==
    InSequential =>
        LET n == Len(invoked)
        IN  /\ n <= Len(call.named)
            /\ \A j \in 1..n : invoked[j].calls = OnceIfRegistered(call.named[j])
            /\ \A j \in 1..(n - 1) : ~FailedAt(j)
            /\ ~Returned => (idx = n + 1 /\ \A j \in 1..n : ~FailedAt(j))
            /\ (Returned /\ ret # Nil) =>
                /\ n >= 1
                /\ FailedAt(n)
                /\ ret = IF Registered(call.named[n])
                         THEN Wrapf(invoked[n].r, call.named[n])
                         ELSE UnknownVMProvider(call.named[n])
            /\ (Returned /\ ret = Nil) =>
                (n = Len(call.named) /\ \A j \in 1..n : ~FailedAt(j))

\* The spec's scenario: three registered names, the action fails for the second;
\* action was invoked for the first two and never for the third.
C7_Witness ==
    /\ InSequential /\ Returned
    /\ call.named = <<"aws", "gce", "azure">>
    /\ DOMAIN Providers = ProviderNames
    /\ ret = Wrapf(ActionError("e1"), "gce")
    /\ Len(invoked) = 2
    /\ \A j \in 1..2 : Len(invoked[j].calls) = 1

\* C8 as stated: when ProvidersParallel has returned, action was invoked
\* exactly once for every position of the name list.
C8_Original ==
    (Returned /\ InParallel) =>
        \A i \in DOMAIN call.named :
            i \in DOMAIN tasks /\ Len(tasks[i].calls) = 1

\* C8 (amended): ProvidersParallel runs one ForProvider task per position of the
\* name list, whatever the other tasks' outcomes; the task of a registered name
\* invokes action exactly once, with the provider registered under the name,
\* and the task of an unregistered name never invokes it; when the call has
\* returned, every position's task has finished.
C8_OnceEachRegistered ==
    InParallel =>
        /\ \A k \in DOMAIN tasks :
            /\ tasks[k].n = call.named[k]
            /\ tasks[k].st \in {"running", "done"} =>
                 tasks[k].calls = OnceIfRegistered(call.named[k])
            /\ tasks[k].st = "pending" => tasks[k].calls = <<>>
        /\ Returned =>
            /\ DOMAIN tasks = DOMAIN call.named
            /\ \A k \in DOMAIN tasks : tasks[k].st = "done"

\* ProvidersParallel returned over three names: one whose action failed, one
\* whose action succeeded, one the registry lacks.
C8_Witness ==
    /\ InParallel /\ Returned
    /\ \E i, j, k \in DOMAIN tasks :
        /\ tasks[i].res.kind = "in provider" /\ Len(tasks[i].calls) = 1
        /\ tasks[j].res = Nil /\ Len(tasks[j].calls) = 1
        /\ tasks[k].res.kind = "unknown vm provider" /\ tasks[k].calls = <<>>

InForProvider == call.fn = "ForProvider"

\* C9: ForProvider(name, action) invokes action exactly when name is a key of
\* the registry, once, with the provider registered under it; it returns the
\* unknown-provider error when the name is absent, the action's error with the
\* provider name added when action fails, and nil exactly when the name is
\* registered and action returned nil.
C9_ForProvider ==
    (InForProvider /\ Returned) =>
        LET named == call.named[1]
            h == invoked[1]
        IN  /\ h.calls # <<>> <=> named \in DOMAIN Providers
            /\ h.calls = OnceIfRegistered(named)
            /\ named \notin DOMAIN Providers =>
                 ret = [kind |-> "unknown vm provider", name |-> named, cause |-> ""]
            /\ (named \in DOMAIN Providers /\ h.r # Nil) =>
                 ret = [kind |-> "in provider", name |-> named, cause |-> h.r.cause]
            /\ ret = Nil <=> (named \in DOMAIN Providers /\ h.r = Nil)

\* ForProvider returned the wrapped error of an action that failed.
C9_Witness ==
    /\ InForProvider /\ Returned
    /\ Len(invoked[1].calls) = 1
    /\ invoked[1].r = ActionError("e2")
    /\ ret.kind = "in provider" /\ ret.name = call.named[1] /\ ret.cause = "e2"

\* C10 as stated: every successful FindActiveAccounts call returns a fresh map
\* (not the cached one, not one returned before), and any two successful calls
\* return equal mappings.
C10_Original ==
    /\ \A j \in DOMAIN returned : returned[j].addr # cachedActiveAccounts
    /\ \A j, l \in DOMAIN returned : j # l => returned[j].addr # returned[l].addr
    /\ \A j, l \in DOMAIN returned : returned[j].snap = returned[l].snap

\* C10 (amended): every successful FindActiveAccounts call returns a fresh map;
\* whatever callers do to the maps they were returned, the cached map keeps the
\* contents it was stored with and a map no caller changed keeps the contents it
\* was returned with; and while no two calls have run concurrently, any two
\* successful calls returned equal mappings.
C10_FreshCopies ==
    /\ \A j \in DOMAIN returned : returned[j].addr # cachedActiveAccounts
    /\ \A j, l \in DOMAIN returned : j # l => returned[j].addr # returned[l].addr
    /\ cachedActiveAccounts # 0 => heap[cachedActiveAccounts] = stored
    /\ \A j \in DOMAIN returned :
        returned[j].touched = 0 => heap[returned[j].addr] = returned[j].snap
    /\ ~overlap =>
        \A j, l \in DOMAIN returned : returned[j].snap = returned[l].snap

\* With sequential callers, the first result was changed by its caller and a
\* later call still returned the cached, non-empty mapping.
C10_Witness ==
    /\ ~overlap
    /\ Len(returned) >= 2
    /\ returned[1].touched > 0
    /\ heap[returned[1].addr] # returned[1].snap
    /\ returned[2].after
    /\ returned[2].snap = stored
    /\ stored # EmptyMap

\* Map mp holds exactly the non-empty identities of the reports seen, under the
\* reporting backends' names.
HoldsNonEmpty(mp, seen) ==
    /\ DOMAIN mp = {n \in DOMAIN seen : seen[n] # ""}
    /\ \A n \in DOMAIN mp : mp[n] = seen[n]

\* Some backend's FindActiveAccount is invoked in this step.
BackendQueried ==
    \E p \in Procs, n \in ProviderNames, rep \in AccountReports : AcctQuery(p, n, rep)

\* Caller p's computation fails in this step.
FailsNow(p) == procs[p].pc = "query" /\ procs'[p].err # Nil

\* C11: with sequential callers, once a FindActiveAccounts call has succeeded
\* (the cache is set, possibly to an empty mapping) no computation is running
\* and every call that returned so far returned the stored mapping; and no step
\* after that invokes a backend's FindActiveAccount or changes the cache
\* variable, the cached map's contents or the record of what was stored,
\* whatever the backends would report now.
C11_ComputedOnce ==
    /\ [](~overlap /\ cachedActiveAccounts # 0 =>
            /\ \A p \in Procs : procs[p].pc = "idle"
            /\ \A j \in DOMAIN returned : returned[j].snap = stored)
    /\ [][~overlap' /\ cachedActiveAccounts # 0 =>
            /\ ~BackendQueried
            /\ cachedActiveAccounts' = cachedActiveAccounts
            /\ heap'[cachedActiveAccounts'] = heap[cachedActiveAccounts]
            /\ stored' = stored
            /\ reported' = reported]_vars

\* With sequential callers the first successful call stored an empty mapping
\* (every registered backend reported an empty identity) and a later call
\* returned that empty mapping again.
C11_Witness ==
    /\ ~overlap
    /\ cachedActiveAccounts # 0
    /\ DOMAIN reported # {}
    /\ stored = EmptyMap
    /\ Len(returned) >= 2
    /\ returned[2].snap = EmptyMap
    /\ returned[2].addr # returned[1].addr

\* C12: nothing makes the first access compute-once. A caller that finds the
\* cache unset can enter the computation while another caller is inside it; a
\* caller inside it can query every backend it has not queried yet, whatever
\* the cache holds by then; and one that has queried them all can write the
\* cache, replacing whatever an earlier writer stored by its own mapping.
C12_RacyFirstAccess ==
    \A p \in Procs :
        /\ (procs[p].pc = "idle" /\ cachedActiveAccounts = 0 /\ OthersBusy(p))
                => ENABLED AcctBegin(p)
        /\ procs[p].pc = "query" =>
                \A n \in procs[p].left :
                    ENABLED (\E rep \in AccountReports : AcctQuery(p, n, rep))
        /\ (procs[p].pc = "query" /\ procs[p].left = {}) =>
                ENABLED (/\ AcctStore(p)
                         /\ cachedActiveAccounts' # cachedActiveAccounts
                         /\ heap'[cachedActiveAccounts'] = procs[p].src)

\* Two overlapping callers both computed and both wrote the cache (the second
\* write is the map at address 3); the backends' answers differed between the
\* two computations, so the two callers returned different mappings and the
\* cache holds the later one.
C12_Witness ==
    /\ overlap
    /\ \A p \in Procs : procs[p].pc = "idle"
    /\ Len(returned) = 2
    /\ cachedActiveAccounts = 3
    /\ returned[1].snap # returned[2].snap
    /\ returned[1].touched = 0 /\ returned[2].touched = 0
    /\ heap[cachedActiveAccounts] = returned[2].snap
    /\ stored = returned[2].snap

\* Locality has been applied to zone z of a VM that is not the local host.
LocalityOf(z) ==
    /\ pc = "returned"
    /\ call.fn = "Locality"
    /\ call.list[1].Zone = z
    /\ z # Local

\* z reads <prefix>-<one lower-case letter>.
HyphenForm(z) ==
    /\ Len(z) >= 2
    /\ z[Len(z)] \in Lower
    /\ z[Len(z) - 1] = "-"

\* z without its last n characters.
DropLast(z, n) == SubSeq(z, 1, Len(z) - n)

\* z is a non-empty string that does not end with a hyphen.
EndsOpen(z) == Len(z) >= 1 /\ z[Len(z)] # "-"

\* z ends with a lower-case letter that follows, directly or after one hyphen,
\* a character that is not a hyphen.
Parses(z) ==
    /\ Len(z) >= 2
    /\ z[Len(z)] \in Lower
    /\ \/ EndsOpen(DropLast(z, 1))
       \/ HyphenForm(z) /\ EndsOpen(DropLast(z, 2))

C15_Projections ==
    (pc = "returned" /\ call.fn \in {"Names", "ProviderIDs"}) =>
        /\ Len(ret) = Len(call.list)
        /\ \A i \in 1..Len(call.list) :
                ret[i] = IF call.fn = "Names" THEN call.list[i].Name
                         ELSE call.list[i].ProviderID
        /\ call.list = invoked[1]

\* Names returned <<"c-1", "c-2", "c-1">> for a list of three VMs, two of them
\* with the same Name but different ProviderIDs.
C15_Witness ==
    /\ pc = "returned"
    /\ call.fn = "Names"
    /\ Len(call.list) = MaxVMs
    /\ call.list[1].Name = call.list[MaxVMs].Name
    /\ call.list[1].ProviderID # call.list[MaxVMs].ProviderID
    /\ ret[1] = "c-1" /\ ret[MaxVMs] = "c-1"
    /\ \E i \in DOMAIN ret : ret[i] = "c-2"

\* C16: while a computation runs, source holds exactly the non-empty identities
\* reported so far, under the names of the backends that reported them, and
\* only registered backends have been queried; the cached map holds exactly the
\* non-empty identities reported to the computation that stored it, which
\* queried every registered backend; the map a computing call returns is the
\* one it stored; and no returned mapping ever had an empty-string value or a
\* key that is not a registered backend.
C16_NonEmptyOnly ==
    /\ [](/\ \A p \in Procs :
                procs[p].pc = "query" =>
                    /\ DOMAIN procs[p].seen = DOMAIN Providers \ procs[p].left
                    /\ HoldsNonEmpty(procs[p].src, procs[p].seen)
          /\ cachedActiveAccounts # 0 =>
                /\ DOMAIN reported = DOMAIN Providers
                /\ HoldsNonEmpty(stored, reported)
                /\ heap[cachedActiveAccounts] = stored
          /\ \A j \in DOMAIN returned :
                /\ DOMAIN returned[j].snap \subseteq DOMAIN Providers
                /\ \A k \in DOMAIN returned[j].snap : returned[j].snap[k] # "")
    /\ [][\A p \in Procs :
            AcctStore(p) =>
                /\ reported' = procs[p].seen
                /\ HoldsNonEmpty(stored', reported')
                /\ returned'[Len(returned')].snap = stored']_vars

\* Two backends are registered; one reported "alice" and the other an empty
\* identity; the mapping stored and returned has the first entry only.
C16_Witness ==
    /\ cachedActiveAccounts # 0
    /\ Cardinality(DOMAIN Providers) = 2
    /\ \E a, b \in DOMAIN reported :
            /\ reported[a] = "alice"
            /\ reported[b] = ""
            /\ stored = Put(EmptyMap, a, "alice")
    /\ Len(returned) >= 1
    /\ returned[1].snap = stored

\* C17: the step in which a backend's FindActiveAccount fails ends the call
\* with that error (wrapped with the backend's name), returns no mapping and
\* leaves the cache variable, the heap and the record of what was stored as
\* they were; with sequential callers the cache is then unset. A cached map
\* was always stored by a computation that queried every registered backend.
\* A caller whose call failed while the cache is unset starts a new
\* computation when it calls again, and cannot be served from the cache.
C17_FailureNotCached ==
    /\ [][\A p \in Procs :
            FailsNow(p) =>
                /\ procs'[p].pc = "idle"
                /\ procs'[p].err.kind = "in provider"
                /\ procs'[p].err.name \in procs[p].left
                /\ procs'[p].err.cause \in ActionErrs
                /\ UNCHANGED <<cachedActiveAccounts, heap, returned, stored, reported>>
                /\ ~overlap => cachedActiveAccounts' = 0]_vars
    /\ [](cachedActiveAccounts # 0 => DOMAIN reported = DOMAIN Providers)
    /\ [](\A p \in Procs :
            (procs[p].pc = "idle" /\ procs[p].err # Nil /\ cachedActiveAccounts = 0) =>
                /\ ENABLED AcctBegin(p)
                /\ ~ENABLED AcctCached(p))

\* With sequential callers and two registered backends, the first caller's
\* computation failed at the first backend it queried (the other one was never
\* queried), nothing was returned or cached, and the second caller's later call
\* is querying the backends again.
C17_Witness ==
    /\ ~overlap
    /\ cachedActiveAccounts = 0
    /\ returned = <<>>
    /\ procs[1].pc = "idle"
    /\ procs[1].err # Nil
    /\ Cardinality(procs[1].left) = 1
    /\ procs[2].pc = "query"
    /\ procs[2].seen # EmptyMap

\* The Provider values that occur in the input list of the call.
Present == {call.list[i].Provider : i \in DOMAIN call.list}

\* C19: in a FanOut call the tasks launched and still to launch are, one each,
\* those of the Provider values that occur in the input list; no task has an
\* empty sub-collection; a task invokes action at most once, only on the
\* registered backend of its Provider value; when FanOut has returned every
\* such value has its task, and the task has invoked action exactly once if the
\* value is registered and not at all otherwise. For the empty list there is
\* nothing to launch, no task and no invocation, FanOut can return at once and
\* returns nil.
C19_OneTaskPerProvider ==
    InFanOut =>
        /\ todo \cup DOMAIN tasks = Present
        /\ todo \cap DOMAIN tasks = {}
        /\ \A k \in DOMAIN tasks :
            /\ tasks[k].n = k
            /\ tasks[k].v # <<>>
            /\ Len(tasks[k].calls) <= 1
            /\ \A j \in DOMAIN tasks[k].calls :
                /\ Registered(k)
                /\ tasks[k].calls[j].p = Providers[k]
                /\ tasks[k].calls[j].v # <<>>
        /\ Returned =>
            /\ DOMAIN tasks = Present
            /\ \A k \in Present : Len(tasks[k].calls) = IF Registered(k) THEN 1 ELSE 0
        /\ call.list = <<>> =>
            /\ todo = {} /\ DOMAIN tasks = {}
            /\ pc = "go" => ENABLED GroupWait
            /\ Returned => ret = Nil

\* All three backends are registered; a FanOut of three VMs of two of them has
\* returned: two tasks, one invocation each, none for the third backend.
C19_Witness ==
    /\ InFanOut /\ Returned
    /\ DOMAIN Providers = ProviderNames
    /\ Len(call.list) = MaxVMs
    /\ Cardinality(Present) = 2
    /\ Cardinality(DOMAIN tasks) = 2
    /\ \A k \in DOMAIN tasks : Len(tasks[k].calls) = 1
    /\ \E b \in DOMAIN Providers : b \notin DOMAIN tasks

\* Some goroutine of the call is inside an action that never returns.
Stalled == \E k \in DOMAIN tasks : tasks[k].st = "stalled"

\* A dispatcher call is in progress.
Dispatching == pc \in {"go", "loop"}

\* C18: under fair scheduling a FanOut, ProvidersParallel or
\* ProvidersSequential call in progress eventually returns unless one of its
\* actions never returns; and once an action of a FanOut or ProvidersParallel
\* call never returns, the call is still waiting and never returns, whatever
\* the other goroutines do.
C18_ReturnsUnlessStalled ==
    /\ Dispatching ~> (Returned \/ Stalled)
    /\ [](Stalled => pc = "go" /\ (InFanOut \/ InParallel) /\ ~ENABLED GroupWait)
    /\ [][Stalled => (Stalled' /\ pc' = "go")]_vars

\* A ProvidersParallel call launched both its goroutines; one action never
\* returns, the other has failed and its error is recorded in the group; the
\* call is still waiting.
C18_Witness ==
    /\ InParallel
    /\ pc = "go"
    /\ LaunchDone
    /\ Cardinality(DOMAIN tasks) = MaxLive
    /\ \E k \in DOMAIN tasks :
        /\ tasks[k].st = "stalled"
        /\ \A j \in DOMAIN tasks \ {k} : tasks[j].st = "done" /\ tasks[j].res # Nil
    /\ g.err # Nil

\* ------------------------------------------------------- specification

\* The account cache before any call: cachedActiveAccounts is nil.
InitCache ==
    /\ cachedActiveAccounts = 0
    /\ heap = <<>>
    /\ procs = [p \in Procs |-> IdleProc(Nil)]
    /\ returned = <<>>
    /\ stored = EmptyMap
    /\ reported = EmptyMap
    /\ overlap = FALSE

InitDispatch ==
    /\ pc = "idle"
    /\ call = NoCall
    /\ m = <<>>
    /\ todo = {}
    /\ idx = 1
    /\ tasks = <<>>
    /\ g = ZeroGroup
    /\ ret = Nil
    /\ invoked = <<>>
    /\ firstErr = {}

Init ==
    /\ Providers \in Registries
    /\ InitDispatch
    /\ InitCache

Next ==
    \/ \E list \in SeqUpTo(VMs, MaxVMs) : CallFanOut(list)
    \/ \E n \in todo : FanOutGo(n)
    \/ \E named \in SeqUpTo(ProviderNames, MaxNamed) : CallProvidersParallel(named)
    \/ ParallelGo
    \/ \E k \in DOMAIN tasks : TaskStart(k)
    \/ \E k \in DOMAIN tasks, r \in ActionResults : TaskFinish(k, r)
    \/ GroupWait
    \/ \E n \in ProviderNames, r \in ActionResults : CallForProvider(n, r)
    \/ \E named \in SeqUpTo(ProviderNames, MaxNamed) : CallProvidersSequential(named)
    \/ \E r \in ActionResults : SequentialStep(r)
    \/ SequentialReturn
    \/ Reset

Spec == Init /\ [][Next]_vars

InitAcct ==
    /\ Providers \in AcctRegistries
    /\ InitDispatch
    /\ InitCache

NextAcct ==
    \/ \E p \in Procs : AcctCached(p)
    \/ \E p \in Procs : AcctBegin(p)
    \/ \E p \in Procs, n \in ProviderNames, rep \in AccountReports : AcctQuery(p, n, rep)
    \/ \E p \in Procs : AcctStore(p)
    \/ \E j \in DOMAIN returned, k \in ProviderNames, val \in {"", Intruder} :
            Mutate(j, k, val)

SpecAcct == InitAcct /\ [][NextAcct]_vars

\* The steps the scheduler owes a call in progress: the caller's loop and
\* g.Wait(), the goroutines' starts, and the returns of actions that return.
Progress ==
    \/ \E n \in todo : FanOutGo(n)
    \/ ParallelGo
    \/ \E k \in DOMAIN tasks : TaskStart(k)
    \/ \E k \in DOMAIN tasks, r \in ActionResults : TaskFinish(k, r)
    \/ GroupWait
    \/ \E r \in ActionResults : SequentialStep(r)
    \/ SequentialReturn

NextLive ==
    \/ \E list \in SeqUpTo(VMs, MaxLive) : CallFanOut(list)
    \/ \E n \in todo : FanOutGo(n)
    \/ \E named \in SeqUpTo(ProviderNames, MaxLive) : CallProvidersParallel(named)
    \/ ParallelGo
    \/ \E k \in DOMAIN tasks : TaskStart(k)
    \/ \E k \in DOMAIN tasks, r \in ActionResults : TaskFinish(k, r)
    \/ \E k \in DOMAIN tasks : TaskStall(k)
    \/ GroupWait
    \/ \E named \in SeqUpTo(ProviderNames, MaxLive) : CallProvidersSequential(named)
    \/ \E r \in ActionResults : SequentialStep(r)
    \/ SequentialReturn
    \/ Reset

\* Every goroutine that can take a step eventually takes one, and an action
\* that returns does so eventually.
SpecLive == Init /\ [][NextLive]_vars /\ WF_vars(Progress)

InitVM ==
    /\ Providers = EmptyMap
    /\ InitDispatch
    /\ InitCache

NextVM ==
    \/ \E v \in ZoneVMs : CallLocality(v)
    \/ \E vl \in SeqUpTo(IdVMs, MaxVMs) : CallNames(vl)
    \/ \E vl \in SeqUpTo(IdVMs, MaxVMs) : CallProviderIDs(vl)
    \/ Reset

SpecVM == InitVM /\ [][NextVM]_vars

====
